---- MODULE Spec2Model ----
(***************************************************************************)
(* Model of the declaration checker of semic-interp: cmm/checker.rs,       *)
(* check_prog, over the frame-stack environment (env::SymTab,              *)
(* env::FuncTab).  One action per arm of the element loop.                 *)
(***************************************************************************)
EXTENDS Integers, Sequences, FiniteSets, TLC

\* ---------------------------------------------------------------- bounds
MaxLen == 4
MaxPrior == 1

Names == {"f", "g"}

\* ------------------------------------------------------- Option<T>
None == <<>>
Some(x) == <<x>>

\* ------------------------------------------------------- program elements
\* A program element: its variant, the identifier it declares and the
\* identity of the AST node (tables hold references to nodes).
Shapes ==
  [kind : {"VarDecl", "Func", "Proto"}, name : Names] \cup
  {[kind |-> "Error", name |-> "_"]}

MkProg(n, sh) ==
  [k \in 1..n |-> [kind |-> sh[k].kind, name |-> sh[k].name, id |-> k]]

\* ------------------------------------------------------- CheckErr messages
VarMsg(name) == <<"variable", name, "already declared">>
FuncDeclaredMsg(name) == <<"function", name, "already declared">>
FuncDefinedMsg(name) == <<"function", name, "already defined">>

\* what a caller may already have in the list it hands over
PriorMsgs == {VarMsg("f")}
PriorLists == UNION {[1..n -> PriorMsgs] : n \in 0..MaxPrior}

\* ------------------------------------------------------- Environment
EmptyFrame == [k \in {} |-> None]
EnvNew == <<>>
PushFrame(env) == Append(env, EmptyFrame)

InsertTop(top, key, val) ==
  [k \in (DOMAIN top) \cup {key} |-> IF k = key THEN val ELSE top[k]]

Insert(env, key, val) ==
  IF Len(env) = 0
  THEN [ok |-> FALSE, prev |-> None, env |-> env]
  ELSE LET top == env[Len(env)] IN
       [ok   |-> TRUE,
        prev |-> IF key \in DOMAIN top THEN Some(top[key]) ELSE None,
        env  |-> [env EXCEPT ![Len(env)] = InsertTop(top, key, val)]]

\* ------------------------------------------------------- check_prog
SetupTabNoPush(env) == env
SetupTab(env) == PushFrame(env)

VarVal(elem) == <<elem.id, None>>
FuncVal(elem) == <<elem.id, Some(elem.id)>>
ProtoVal(elem) == <<elem.id, None>>

\* the diagnostics each arm pushes for the result of its insert
VarDeclMatchSilent(r, name) == <<>>
VarDeclMatch(r, name) ==
  IF r.ok /\ r.prev # None THEN <<VarMsg(name)>> ELSE <<>>

FuncMatchAnyPrior(r, name) ==
  IF r.ok /\ r.prev # None THEN <<FuncDeclaredMsg(name)>> ELSE <<>>
FuncMatch(r, name) ==
  IF r.ok /\ r.prev # None
  THEN IF r.prev[1][2] = None THEN <<>> ELSE <<FuncDeclaredMsg(name)>>
  ELSE <<>>

ProtoMatchBodyOnly(r, name) ==
  IF r.ok /\ r.prev # None /\ r.prev[1][2] # None
  THEN <<FuncDefinedMsg(name)>> ELSE <<>>
ProtoMatch(r, name) ==
  IF r.ok /\ r.prev # None THEN <<FuncDefinedMsg(name)>> ELSE <<>>

ErrorArmNoisy(errs) == Append(errs, <<"error">>)
ErrorArm(errs) == errs

LoopDoneEarly(pos, prog, errs) == pos > Len(prog) \/ Len(errs) > 0
LoopDone(pos, prog, errs) == pos > Len(prog)

VerdictAlwaysOk(errs) == "Ok"
Verdict(errs) == IF Len(errs) = 0 THEN "Ok" ELSE "Err"

\* one arm of the match at lines 48-96, as a function of the pass state
\* st = [syms, funcs, errors, ok]; ok is FALSE once an insert returned Err
\* (the panic branches)
VarDeclArm(st, elem) ==
  LET r == Insert(st.syms, elem.name, VarVal(elem)) IN
  [syms |-> r.env, funcs |-> st.funcs,
   errors |-> st.errors \o VarDeclMatch(r, elem.name), ok |-> r.ok]

FuncArm(st, elem) ==
  LET r == Insert(st.funcs, elem.name, FuncVal(elem)) IN
  [syms |-> st.syms, funcs |-> r.env,
   errors |-> st.errors \o FuncMatch(r, elem.name), ok |-> r.ok]

ProtoArm(st, elem) ==
  LET r == Insert(st.funcs, elem.name, ProtoVal(elem)) IN
  [syms |-> st.syms, funcs |-> r.env,
   errors |-> st.errors \o ProtoMatch(r, elem.name), ok |-> r.ok]

MalformedArm(st, elem) ==
  [syms |-> st.syms, funcs |-> st.funcs,
   errors |-> ErrorArm(st.errors), ok |-> TRUE]

ElemStep(st, elem) ==
  CASE elem.kind = "VarDecl" -> VarDeclArm(st, elem)
    [] elem.kind = "Func"    -> FuncArm(st, elem)
    [] elem.kind = "Proto"   -> ProtoArm(st, elem)
    [] elem.kind = "Error"   -> MalformedArm(st, elem)

\* does frame-stack env hold a body-absent / body-present entry for name
ProtoOnly(env, name) ==
  /\ Len(env) > 0
  /\ name \in DOMAIN env[Len(env)]
  /\ env[Len(env)][name][2] = None
HasBody(env, name) ==
  /\ Len(env) > 0
  /\ name \in DOMAIN env[Len(env)]
  /\ env[Len(env)][name][2] # None

\* ------------------------------------------------------- state
\* fulfilled is a history variable: per function identifier, the number of
\* steps so far that turned its entry from body-absent into body-present
VARIABLES ast, errors0, errors, syms, funcs, i, pc, result, fulfilled

vars == <<ast, errors0, errors, syms, funcs, i, pc, result, fulfilled>>

Init ==
  /\ \E n \in 0..MaxLen : \E sh \in [1..n -> Shapes] : ast = MkProg(n, sh)
  /\ errors0 \in PriorLists
  /\ errors = errors0
  /\ funcs = EnvNew
  /\ syms = EnvNew
  /\ i = 1
  /\ pc = "setup"
  /\ result = "none"
  /\ fulfilled = [n \in Names |-> 0]

\* lines 39-44: push the global frame of each table
Setup ==
  /\ pc = "setup"
  /\ funcs' = SetupTab(funcs)
  /\ syms' = SetupTab(syms)
  /\ pc' = "loop"
  /\ UNCHANGED <<ast, errors0, errors, i, result, fulfilled>>

AtElem(kind) ==
  /\ pc = "loop"
  /\ ~LoopDone(i, ast, errors)
  /\ ast[i].kind = kind

Cur == [syms |-> syms, funcs |-> funcs, errors |-> errors, ok |-> TRUE]

\* the loop body for the element at position i; a failed insert panics
Apply(st) ==
  /\ syms' = st.syms
  /\ funcs' = st.funcs
  /\ errors' = st.errors
  /\ pc' = IF st.ok THEN "loop" ELSE "panic"
  /\ i' = IF st.ok THEN i + 1 ELSE i
  /\ fulfilled' =
       [n \in Names |->
          IF ProtoOnly(funcs, n) /\ HasBody(st.funcs, n)
          THEN fulfilled[n] + 1 ELSE fulfilled[n]]
  /\ UNCHANGED <<ast, errors0, result>>

CheckVarDecl == AtElem("VarDecl") /\ Apply(VarDeclArm(Cur, ast[i]))

CheckFunc == AtElem("Func") /\ Apply(FuncArm(Cur, ast[i]))

CheckProto == AtElem("Proto") /\ Apply(ProtoArm(Cur, ast[i]))

CheckError == AtElem("Error") /\ Apply(MalformedArm(Cur, ast[i]))

\* lines 99-102
Return ==
  /\ pc = "loop"
  /\ LoopDone(i, ast, errors)
  /\ result' = Verdict(errors)
  /\ pc' = "done"
  /\ UNCHANGED <<ast, errors0, errors, syms, funcs, i, fulfilled>>

Next ==
  \/ Setup
  \/ CheckVarDecl
  \/ CheckFunc
  \/ CheckProto
  \/ CheckError
  \/ Return

Spec == Init /\ [][Next]_vars

TypeOK ==
  /\ pc \in {"setup", "loop", "done", "panic"}
  /\ result \in {"none", "Ok", "Err"}
  /\ i \in 1..(Len(ast) + 1)
  /\ \A n \in Names : fulfilled[n] \in 0..Len(ast)

\* ------------------------------------------------------- vocabulary
\* the diagnostics this pass appended to the caller's list
Appended == SubSeq(errors, Len(errors0) + 1, Len(errors))

Positions(kind, name) ==
  {k \in DOMAIN ast : ast[k].kind = kind /\ ast[k].name = name}

CountMsg(seq, m) == Cardinality({k \in DOMAIN seq : seq[k] = m})

\* kinds of the Proto/Func elements naming f, in source order
IsFuncElem(e) == e.kind \in {"Func", "Proto"}
FuncKinds(f) ==
  LET sub == SelectSeq(ast, LAMBDA e : IsFuncElem(e) /\ e.name = f)
  IN  [k \in DOMAIN sub |-> sub[k].kind]

NoDupVars == \A x \in Names : Cardinality(Positions("VarDecl", x)) <= 1
MergeableFuncs ==
  \A f \in Names :
    FuncKinds(f) \in {<<>>, <<"Proto">>, <<"Func">>, <<"Proto", "Func">>}

Min(S) == CHOOSE m \in S : \A n \in S : m <= n

\* ------------------------------------------------------- C1
\* C1 as stated: check_prog returns Ok exactly when the pass itself appended
\* no diagnostic, whatever the caller's list held at entry; in particular a
\* program with zero elements is always accepted.
C1_OkIffNothingAppended ==
  pc = "done" =>
    /\ (result = "Ok" <=> Appended = <<>>)
    /\ (Len(ast) = 0 => result = "Ok")

\* C1 amended: check_prog returns Ok exactly when the caller's list was empty
\* at entry and the pass appended no diagnostic; a program with zero elements
\* and a program that triggers no duplicate rule are accepted when the list
\* was empty at entry, and rejected when it was not.
C1_OkIffListEmptyAtReturn ==
  pc = "done" =>
    /\ (result = "Ok" <=> (errors0 = <<>> /\ Appended = <<>>))
    /\ (result = "Err" <=> (errors0 # <<>> \/ Appended # <<>>))
    /\ (Len(ast) = 0 => (result = "Ok" <=> errors0 = <<>>))
    /\ ((NoDupVars /\ MergeableFuncs) => (result = "Ok" <=> errors0 = <<>>))

\* a clean, non-empty program is rejected because of what the caller's list
\* already held
C1_Witness ==
  /\ pc = "done"
  /\ Len(ast) > 0
  /\ errors0 # <<>>
  /\ Appended = <<>>
  /\ result = "Err"

\* ------------------------------------------------------- C2
\* C2: started with an empty error list, check_prog accepts a program iff no
\* variable identifier occurs in more than one VarDecl and, for every function
\* identifier, the Proto/Func elements naming it are none, one Proto, one
\* Func, or a Proto followed by a Func; variables and functions of the same
\* name do not conflict.
C2_AcceptIffNoDuplicates ==
  (pc = "done" /\ errors0 = <<>>) =>
    (result = "Ok" <=> (NoDupVars /\ MergeableFuncs))

\* accepted: a variable f next to a prototype of f fulfilled by a definition
C2_Witness ==
  /\ pc = "done"
  /\ errors0 = <<>>
  /\ result = "Ok"
  /\ Positions("VarDecl", "f") # {}
  /\ FuncKinds("f") = <<"Proto", "Func">>

\* ------------------------------------------------------- C3
\* C3: for every function identifier there is at most one step of the pass at
\* which its entry changes from prototype only to has a body.
C3_FulfilledAtMostOnce == \A f \in Names : fulfilled[f] <= 1

\* ------------------------------------------------------- C4
\* C4: a program with two Func elements of the same name f is rejected and the
\* error list contains 'function f already declared'.
C4_TwoDefinitionsReported ==
  pc = "done" =>
    \A f \in Names :
      Cardinality(Positions("Func", f)) >= 2 =>
        /\ result = "Err"
        /\ CountMsg(Appended, FuncDeclaredMsg(f)) >= 1

\* ------------------------------------------------------- C5
\* C5: after a program with two VarDecl elements for x, the variable table
\* binds x to the first of them.
C5_FirstDeclarationRetained ==
  pc = "done" =>
    \A x \in Names :
      Cardinality(Positions("VarDecl", x)) >= 2 =>
        syms[Len(syms)][x] = VarVal(ast[Min(Positions("VarDecl", x))])

\* ------------------------------------------------------- C6
\* a step of the loop body that processed the element at position i
ElemProcessed == pc = "loop" /\ i <= Len(ast) /\ pc' = "loop" /\ i' = i + 1

EarlierVarDecl(k) ==
  \E j \in 1..(k - 1) : ast[j].kind = "VarDecl" /\ ast[j].name = ast[k].name

C6_Step ==
  ElemProcessed =>
    IF ast[i].kind = "VarDecl"
    THEN errors' = errors \o
           (IF EarlierVarDecl(i) THEN <<VarMsg(ast[i].name)>> ELSE <<>>)
    ELSE \A x \in Names :
           CountMsg(errors', VarMsg(x)) = CountMsg(errors, VarMsg(x))

C6_Count ==
  pc = "done" =>
    \A x \in Names :
      LET k == Cardinality(Positions("VarDecl", x)) IN
      CountMsg(Appended, VarMsg(x)) = IF k >= 1 THEN k - 1 ELSE 0

\* C6: a VarDecl for x appends 'variable x already declared' iff an earlier
\* VarDecl of the program names x; a program with k >= 1 VarDecl elements for
\* x ends with exactly k-1 such diagnostics appended, and Proto, Func and
\* Malformed elements never change that count.
C6_VarDiagnostics == [][C6_Step]_vars /\ [](C6_Count)

\* three declarations of f, two diagnostics, with a function f in between
C6_Witness ==
  /\ pc = "done"
  /\ Cardinality(Positions("VarDecl", "f")) = 3
  /\ Positions("Func", "f") # {}
  /\ CountMsg(Appended, VarMsg("f")) = 2

\* ------------------------------------------------------- C7
C7_Step ==
  (ElemProcessed /\ IsFuncElem(ast[i])) =>
    LET elem == ast[i]
        f == elem.name
        top == funcs[Len(funcs)]
        had == f \in DOMAIN top
        isProto == elem.kind = "Proto"
    IN  /\ errors' = errors \o
             (IF had /\ isProto THEN <<FuncDefinedMsg(f)>>
              ELSE IF had /\ top[f][2] # None THEN <<FuncDeclaredMsg(f)>>
              ELSE <<>>)
        /\ f \in DOMAIN funcs'[Len(funcs')]
        /\ funcs'[Len(funcs')][f] =
             <<elem.id, IF isProto THEN None ELSE Some(elem.id)>>
        /\ \A g \in (DOMAIN top) \ {f} :
             g \in DOMAIN funcs'[Len(funcs')] /\ funcs'[Len(funcs')][g] = top[g]

\* C7: an element naming function f appends a diagnostic iff the function
\* table already holds an entry for f and the element is a Prototype
\* ('already defined') or a FunctionDefinition over an entry with a body
\* ('already declared'); a FunctionDefinition over a body-absent entry appends
\* nothing; in every case the element's own pair becomes the entry for f.
C7_FunctionPolicy == [][C7_Step]_vars

\* a definition has just fulfilled a prototype silently and replaced its entry
C7_Witness ==
  /\ pc = "loop"
  /\ i = 3
  /\ ast[1].kind = "Proto" /\ ast[1].name = "f"
  /\ ast[2].kind = "Func" /\ ast[2].name = "f"
  /\ Appended = <<>>
  /\ funcs[1]["f"] = <<2, Some(2)>>

\* ------------------------------------------------------- C8
RECURSIVE Run(_, _)
Run(prog, st) ==
  IF prog = <<>> THEN st ELSE Run(Tail(prog), ElemStep(st, Head(prog)))

Strip(prog) == SelectSeq(prog, LAMBDA e : e.kind # "Error")

C8_Step ==
  (ElemProcessed /\ ast[i].kind = "Error") =>
    (syms' = syms /\ funcs' = funcs /\ errors' = errors)

\* the state in which the pass over prog, started on the caller's list, ends
Outcome(prog) ==
  Run(prog, [syms |-> SetupTab(EnvNew), funcs |-> SetupTab(EnvNew),
             errors |-> errors0, ok |-> TRUE])

C8_SameAsStripped ==
  pc = "done" =>
    LET st == Outcome(Strip(ast))
    IN  /\ syms = st.syms
        /\ funcs = st.funcs
        /\ errors = st.errors
        /\ result = Verdict(st.errors)

C8_OnlyMalformed == pc = "done" /\ Strip(ast) = <<>>

\* C8 as stated: Malformed elements are neutral: the pass over a program ends
\* with the error list, verdict and tables of the pass over the same program
\* with its Malformed elements deleted; processing a Malformed element changes
\* neither table nor the error list; a program of only Malformed elements is
\* accepted.
C8_MalformedNeutralAccepted ==
  /\ [][C8_Step]_vars
  /\ [](C8_SameAsStripped)
  /\ [](C8_OnlyMalformed => result = "Ok")

\* C8 amended: as stated, except that a program of only Malformed elements is
\* accepted exactly when the caller's error list was empty at entry.
C8_MalformedNeutral ==
  /\ [][C8_Step]_vars
  /\ [](C8_SameAsStripped)
  /\ [](C8_OnlyMalformed => (result = "Ok" <=> errors0 = <<>>))

\* a rejected program with Malformed elements between the declarations that
\* conflict
C8_Witness ==
  /\ pc = "done"
  /\ Len(ast) = 4
  /\ ast[2].kind = "Error"
  /\ ast[3].kind = "Error"
  /\ Len(Appended) = 1

\* ------------------------------------------------------- C9
SameNamespace(a, b) ==
  \/ a.kind = "VarDecl" /\ b.kind = "VarDecl"
  \/ IsFuncElem(a) /\ IsFuncElem(b)

C9_Step ==
  /\ Len(errors') >= Len(errors)
  /\ SubSeq(errors', 1, Len(errors)) = errors
  /\ pc' = "done" => (i' = Len(ast) + 1 /\ errors' = errors)
  /\ (pc = "loop" /\ pc' = "loop") =>
       /\ i <= Len(ast)
       /\ i' = i + 1
       /\ \/ errors' = errors
          \/ /\ Len(errors') = Len(errors) + 1
             /\ errors'[Len(errors')][2] = ast[i].name
             /\ \E j \in 1..(i - 1) :
                  SameNamespace(ast[j], ast[i]) /\ ast[j].name = ast[i].name

\* C9: check_prog never stops early: each step processes the next element in
\* source order, also after diagnostics were produced, and the pass returns
\* only after the last element; an element appends at most one diagnostic,
\* at the end of the list, earlier entries staying in place; the element that
\* triggers a diagnostic is a later occurrence of its identifier.
C9_NoEarlyExit == [][C9_Step]_vars

\* two diagnostics were appended and elements after the first one processed
C9_Witness ==
  /\ pc = "done"
  /\ Len(ast) = 4
  /\ Len(Appended) = 2
  /\ ast[1].name = ast[2].name /\ SameNamespace(ast[1], ast[2])
  /\ ast[4].kind = "Proto"

\* ------------------------------------------------------- C10
\* C10: from the initial push_frame until the pass returns each table has
\* exactly one frame, so no insert returns Err and the panics are unreachable.
C10_OneFrame ==
  /\ pc # "panic"
  /\ pc \in {"loop", "done"} => (Len(syms) = 1 /\ Len(funcs) = 1)

\* the pass returned after inserting into both tables
C10_Witness ==
  /\ pc = "done"
  /\ Len(syms) = 1 /\ DOMAIN syms[1] # {}
  /\ Len(funcs) = 1 /\ DOMAIN funcs[1] # {}
====
